---- MODULE Spec2Model ----
(***************************************************************************)
(* A model of the bandits package: the Agent family (src/bandits/agent.py) *)
(* and the Policy family (src/bandits/policy.py).                          *)
(*                                                                         *)
(* One agent object and the policy object bound to it are the state.  The  *)
(* driver calls choose(), observe(reward), reset() and, on a               *)
(* FrequentistAgent, rand_choice() and optimize(), in any order.           *)
(*                                                                         *)
(* Real numbers are exact rationals <<numerator, denominator>>.  numpy     *)
(* arrays of length k are functions on 0..k-1.  A call that raises leaves  *)
(* raised = TRUE and the fields as the code left them at the raise.        *)
(***************************************************************************)
EXTENDS Integers, Sequences, FiniteSets, Bags, TLC

VARIABLES
    agent,    \* the Agent object: a record of its fields (kind = its class)
    policy,   \* the Policy object bound to it: a record of its fields
    op,       \* the last call made by the driver
    raised,   \* whether that call raised an exception
    ret,      \* what that call returned (None when it raised or returns nothing)
    calls,    \* how many times FrequentistPolicy.choose has been entered
    observed, \* how many observe() calls returned since construction or reset()
    last_reward, \* the reward the last call was given (NoneQ when it took none)
    seen,     \* per arm, the bag of rewards observe() applied to that arm
              \* since construction or reset()
    chosen,   \* whether choose() has returned since construction or reset()
    blind     \* whether some observe() was called with no choose() before it
              \* since construction or the reset() before it

vars == <<agent, policy, op, raised, ret, calls, observed,
          last_reward, seen, chosen, blind>>

----------------------------------------------------------------------------
(* Bounds of the model. *)

MaxK == 2          \* arm counts up to MaxK
MaxT == 3          \* observe() is called while t < MaxT
MaxHorizon == 2    \* FrequentistPolicy horizons N in 0..MaxHorizon
MaxCalls == 3      \* FrequentistPolicy.choose is entered at most MaxCalls times
MaxRand == 3       \* FrequentistAgent.rand_choice is called while n < MaxRand

(* Python's None, as a value that is no array index of the model. *)
None == -1

----------------------------------------------------------------------------
(* Exact rational arithmetic: <<n, d>> with d > 0 and gcd(n, d) = 1. *)

RECURSIVE GCD(_, _)
GCD(a, b) == IF b = 0 THEN a ELSE GCD(b, a % b)

Abs(x) == IF x < 0 THEN -x ELSE x

Norm(n, d) ==
    LET s == IF d < 0 THEN -1 ELSE 1
        g == GCD(Abs(n), Abs(d))
    IN  <<(s * n) \div g, (s * d) \div g>>

Q(n) == <<n, 1>>
QAdd(a, b) ==
    LET g == GCD(a[2], b[2])
    IN  Norm(a[1] * (b[2] \div g) + b[1] * (a[2] \div g), (a[2] \div g) * b[2])
QNeg(a) == <<-a[1], a[2]>>
QSub(a, b) == QAdd(a, QNeg(b))
QMul(a, b) == Norm(a[1] * b[1], a[2] * b[2])
QInv(a) == Norm(a[2], a[1])
QLess(a, b) ==
    LET g == GCD(a[2], b[2])
    IN  a[1] * (b[2] \div g) < b[1] * (a[2] \div g)
QLeq(a, b) == a = b \/ QLess(a, b)

RECURSIVE SumOver(_, _)
SumOver(f, S) ==
    IF S = {} THEN 0
    ELSE LET x == CHOOSE y \in S : TRUE IN f[x] + SumOver(f, S \ {x})

RECURSIVE QSumOver(_, _)
QSumOver(f, S) ==
    IF S = {} THEN Q(0)
    ELSE LET x == CHOOSE y \in S : TRUE IN QAdd(f[x], QSumOver(f, S \ {x}))

Arms(k) == 0 .. (k - 1)

(* Python's None where a real number is expected (gamma): no rational has a *)
(* zero denominator.                                                        *)
NoneQ == <<0, 0>>

----------------------------------------------------------------------------
(* numpy helpers on arrays of length k. *)

(* np.argmax: the first index of the maximum. *)
ArgMax(v, k) ==
    CHOOSE i \in Arms(k) :
        /\ \A j \in Arms(k) : QLeq(v[j], v[i])
        /\ \A j \in Arms(k) : (j < i) => QLess(v[j], v[i])

(* np.where(v == v[action])[0]: the indices holding the same value. *)
WhereEqual(v, k, action) == {i \in Arms(k) : v[i] = v[action]}

----------------------------------------------------------------------------
(* policy.py: the policies.  Each choose yields the set of its possible    *)
(* outcomes, one per draw of the random source: a record                   *)
(* [raise, action, policy, agent], policy and agent being the two objects  *)
(* as the call leaves them (choose is handed the agent itself).            *)

Returns(action, p, a) == [raise |-> FALSE, action |-> action, policy |-> p, agent |-> a]
Raises(p, a) == [raise |-> TRUE, action |-> None, policy |-> p, agent |-> a]

EpsilonGreedyPolicy(epsilon) == [kind |-> "EpsilonGreedy", epsilon |-> epsilon]
GreedyPolicy == EpsilonGreedyPolicy(Q(0))
RandomPolicy == EpsilonGreedyPolicy(Q(1))
UCBPolicy(c) == [kind |-> "UCB", c |-> c]
SoftmaxPolicy == [kind |-> "Softmax"]
FrequentistPolicy(n) ==
    [kind |-> "Frequentist", N |-> n, n |-> 0,
     last_choice |-> None, optimal_choice |-> None]

(* len(agent.value_estimates): the first dimension of the array. *)
Len1(a) == IF a.ndim = 2 THEN 1 ELSE a.k

(* A tie-break that always keeps np.argmax's index, the lowest. *)
GreedyTieBreakLowestIndex(v, k) == {ArgMax(v, k)}

(* The greedy branch: argmax, then a random pick among exact ties. *)
GreedyTieBreak(v, k) ==
    LET action == ArgMax(v, k)
        check == WhereEqual(v, k, action)
    IN  IF Cardinality(check) = 1 THEN {action} ELSE check

EpsilonGreedyChoose(p, a) ==
    LET explore ==
            \* np.random.random() < epsilon for some draw in [0, 1)
            IF QLess(Q(0), p.epsilon)
            THEN IF Len1(a) = 0 THEN {Raises(p, a)}
                 ELSE {Returns(i, p, a) : i \in Arms(Len1(a))}
            ELSE {}
        exploit ==
            \* np.random.random() >= epsilon for some draw in [0, 1)
            IF QLess(p.epsilon, Q(1))
            THEN IF a.k = 0 THEN {Raises(p, a)}
                 ELSE {Returns(i, p, a) : i \in GreedyTieBreak(a.value_estimates, a.k)}
            ELSE {}
    IN  explore \cup exploit

(* UCB.  The bonus (ln(t+1)/attempts)^(1/c) is kept by its kind: "nan",    *)
(* "zero", "pos" (finite and positive) or "inf", with the attempt count it *)
(* was computed from.                                                      *)
(* A bonus whose division is guarded: 0 for an arm with no attempt. *)
LogOverAttemptsGuarded(t, n) == IF t = 0 \/ n = 0 THEN "zero" ELSE "pos"

LogOverAttempts(t, n) ==
    IF t = 0
    THEN IF n = 0 THEN "nan" ELSE "zero"      \* ln(1) = 0: 0/0, 0/n
    ELSE IF n = 0 THEN "inf" ELSE "pos"       \* ln(t+1) > 0: x/0, x/n

(* A guard on np.isfinite instead of np.isnan: infinities are zeroed too. *)
NonFiniteToZero(kind) == IF kind \in {"nan", "inf"} THEN "zero" ELSE kind

(* exploration[np.isnan(exploration)] = 0 *)
NanToZero(kind) == IF kind = "nan" THEN "zero" ELSE kind

(* np.power(x, 1/c) for c # 0 on a non-negative x. *)
Power(kind, c) ==
    IF c > 0 THEN kind
    ELSE CASE kind = "zero" -> "inf"
           [] kind = "inf" -> "zero"
           [] OTHER -> kind

UCBExploration(p, a) ==
    [i \in Arms(a.k) |->
        [kind |-> Power(NanToZero(LogOverAttempts(a.t, a.action_attempts[i])), p.c),
         n |-> a.action_attempts[i]]]

(* q = value_estimates + exploration, compared without computing the       *)
(* irrational bonus: x < y is known when y is infinite and x is not, or    *)
(* when neither the estimate nor the bonus of x exceeds that of y and one  *)
(* of them is smaller.                                                     *)
BonusLess(x, y, c) ==
    \/ x.kind = "zero" /\ y.kind = "pos"
    \/ /\ x.kind = "pos" /\ y.kind = "pos"
       /\ IF c > 0 THEN x.n > y.n ELSE x.n < y.n
BonusEqual(x, y) ==
    /\ x.kind = y.kind
    /\ x.kind = "pos" => x.n = y.n
UCBEqual(v, e, i, j) ==
    \/ e[i].kind = "inf" /\ e[j].kind = "inf"
    \/ /\ e[i].kind # "inf" /\ e[j].kind # "inf"
       /\ v[i] = v[j] /\ BonusEqual(e[i], e[j])
UCBLess(v, e, c, i, j) ==
    \/ e[i].kind # "inf" /\ e[j].kind = "inf"
    \/ /\ e[i].kind # "inf" /\ e[j].kind # "inf"
       /\ \/ QLeq(v[i], v[j]) /\ BonusLess(e[i], e[j], c)
          \/ QLess(v[i], v[j]) /\ (BonusLess(e[i], e[j], c) \/ BonusEqual(e[i], e[j]))

(* The indices np.argmax(q) can be: not known to be below another arm, and *)
(* not equal to an earlier one.                                            *)
UCBArgMax(v, e, c, k) ==
    {i \in Arms(k) :
        /\ \A j \in Arms(k) : ~UCBLess(v, e, c, i, j)
        /\ \A j \in Arms(k) : (j < i) => ~UCBEqual(v, e, j, i)}

UCBChoose(p, a) ==
    IF p.c = 0 THEN {Raises(p, a)}           \* 1 / self.c
    ELSE IF a.k = 0 THEN {Raises(p, a)}      \* np.argmax of an empty array
    ELSE LET e == UCBExploration(p, a)
             v == a.value_estimates
         IN  UNION {
               LET check == {j \in Arms(a.k) : UCBEqual(v, e, action, j)}
               IN  IF a.ndim = 2
                   THEN \* q has shape (1, k): q[action] indexes its only row
                        IF action >= 1 THEN {Raises(p, a)} ELSE {Returns(0, p, a)}
                   ELSE IF Cardinality(check) = 1 THEN {Returns(action, p, a)}
                        ELSE {Returns(j, p, a) : j \in check}
               : action \in UCBArgMax(v, e, p.c, a.k)}

(* A choose that books the arm it returns in the agent's attempt counts. *)
SoftmaxChooseCountsAttempt(p, a) ==
    IF a.k = 0 THEN {Raises(p, a)}
    ELSE {Returns(i, p, [a EXCEPT !.action_attempts[i] = @ + 1]) : i \in Arms(a.k)}

(* Softmax: every arm has a positive probability. *)
SoftmaxChoose(p, a) ==
    IF a.k = 0 THEN {Raises(p, a)}           \* np.where(...)[0][0] on no index
    ELSE {Returns(i, p, a) : i \in Arms(a.k)}

(* A FrequentistPolicy.choose that stores the round it is in and the arm   *)
(* it returned.                                                            *)
FrequentistChooseCounting(p, a) ==
    IF p.n < p.N
    THEN LET this_choice ==
                 IF p.last_choice = None THEN 0
                 ELSE IF p.last_choice # a.k THEN p.last_choice + 1 ELSE 0
         IN  {Returns(this_choice,
                      [p EXCEPT !.n = p.n + 1, !.last_choice = this_choice], a)}
    ELSE IF a.k = 0 THEN {Raises(p, a)}
    ELSE {Returns(ArgMax(a.value_estimates, a.k), p, a)}

FrequentistChoose(p, a) ==
    IF p.n < p.N
    THEN LET this_choice ==
                 IF p.last_choice = None THEN 0
                 ELSE IF p.last_choice # a.k THEN p.last_choice + 1 ELSE 0
         IN  {Returns(this_choice, p, a)}
    ELSE IF p.n = p.N
    THEN IF a.k = 0 THEN {Raises(p, a)}      \* np.argmax of an empty array
         ELSE LET best == ArgMax(a.value_estimates, a.k)
              IN  {Returns(best, [p EXCEPT !.optimal_choice = best], a)}
    ELSE {Returns(p.optimal_choice, p, a)}

PolicyChoose(p, a) ==
    CASE p.kind = "EpsilonGreedy" -> EpsilonGreedyChoose(p, a)
      [] p.kind = "UCB" -> UCBChoose(p, a)
      [] p.kind = "Softmax" -> SoftmaxChoose(p, a)
      [] p.kind = "Frequentist" -> FrequentistChoose(p, a)

----------------------------------------------------------------------------
(* agent.py: the agents. *)

Zeros(k) == [i \in Arms(k) |-> 0]
Ones(k) == [i \in Arms(k) |-> 1]

(* Agent.__init__.  value_estimates has ndim dimensions: (k,) or (1, k). *)
Agent(k, prior, gamma) ==
    [kind |-> "Agent", k |-> k, prior |-> prior, gamma |-> gamma,
     value_estimates |-> [i \in Arms(k) |-> prior], ndim |-> 1,
     action_attempts |-> Zeros(k), t |-> 0, last_action |-> None]

GradientAgent(k, prior, alpha, baseline) ==
    [kind |-> "GradientAgent", alpha |-> alpha, baseline |-> baseline,
     average_reward |-> Q(0)] @@ Agent(k, prior, NoneQ)

BetaAgent(k, n, ts) ==
    [kind |-> "BetaAgent", n |-> n, ts |-> ts,
     alpha |-> Ones(k), beta |-> Ones(k),
     value_estimates |-> [i \in Arms(k) |-> Q(0)]] @@ Agent(k, Q(0), NoneQ)

FrequentistAgent(k) ==
    [kind |-> "FrequentistAgent", n |-> -1, num_arm |-> k,
     last_choice |-> 0, optimal_choice |-> None] @@ Agent(k, Q(0), NoneQ)

(* What a name bound to no object holds: the constructor raised. *)
NoAgent == [kind |-> "none"]

(* np.ones(k) and np.zeros(k) raise ValueError on a negative k. *)
ConstructorRaises(k) == k < 0

AgentReset(a) ==
    [a EXCEPT !.value_estimates = [i \in Arms(a.k) |-> a.prior],
              !.action_attempts = Zeros(a.k),
              !.last_action = None,
              !.t = 0]

GradientAgentReset(a) == [AgentReset(a) EXCEPT !.average_reward = Q(0)]

(* A BetaAgent.reset that only runs the base reset. *)
BetaAgentResetBaseOnly(a) == AgentReset(a)

BetaAgentReset(a) ==
    [AgentReset(a) EXCEPT !.alpha = Ones(a.k), !.beta = Ones(a.k)]

FrequentistAgentReset(a) ==
    [a EXCEPT !.n = -1, !.last_choice = 0, !.optimal_choice = None]

ResetOf(a) ==
    CASE a.kind = "Agent" -> AgentReset(a)
      [] a.kind = "GradientAgent" -> GradientAgentReset(a)
      [] a.kind = "BetaAgent" -> BetaAgentReset(a)
      [] a.kind = "FrequentistAgent" -> FrequentistAgentReset(a)

(* An index that addresses the whole array whatever last_action is. *)
IndexedWholeArray(a) == Arms(a.k)

(* The positions array[self.last_action] addresses: one arm, or, with      *)
(* last_action None, the whole array (None is numpy's newaxis: array[None] *)
(* is a view of every element).                                            *)
Indexed(a) == IF a.last_action = None THEN Arms(a.k) ELSE {a.last_action}

(* array[self.last_action] raises IndexError on an index outside the array. *)
IndexRaises(a) == a.last_action # None /\ a.last_action \notin Arms(a.k)

(* An increment of the whole action_attempts array. *)
IncrementEveryArm(a) == [i \in Arms(a.k) |-> a.action_attempts[i] + 1]

Increment(a) ==
    [i \in Arms(a.k) |->
        IF i \in Indexed(a) THEN a.action_attempts[i] + 1 ELSE a.action_attempts[i]]

(* An Agent.observe whose sample-average step size counts the prior as one *)
(* earlier observation.                                                    *)
AgentObservePriorCounted(a, reward) ==
    LET attempts == Increment(a)
        g(i) == IF a.gamma = NoneQ THEN QInv(Q(attempts[i] + 1)) ELSE a.gamma
        q == a.value_estimates
    IN  [a EXCEPT
            !.action_attempts = attempts,
            !.value_estimates =
                [i \in Arms(a.k) |->
                    IF i \in Indexed(a)
                    THEN QAdd(q[i], QMul(g(i), QSub(reward, q[i])))
                    ELSE q[i]],
            !.t = a.t + 1]

(* An Agent.observe that steps half way to the reward when gamma is None.  *)
AgentObserveHalfStep(a, reward) ==
    LET attempts == Increment(a)
        g(i) == IF a.gamma = NoneQ THEN <<1, 2>> ELSE a.gamma
        q == a.value_estimates
    IN  [a EXCEPT
            !.action_attempts = attempts,
            !.value_estimates =
                [i \in Arms(a.k) |->
                    IF i \in Indexed(a)
                    THEN QAdd(q[i], QMul(g(i), QSub(reward, q[i])))
                    ELSE q[i]],
            !.t = a.t + 1]

(* Agent.observe, past the index check. *)
AgentObserve(a, reward) ==
    LET attempts == Increment(a)
        g(i) == IF a.gamma = NoneQ THEN QInv(Q(attempts[i])) ELSE a.gamma
        q == a.value_estimates
    IN  [a EXCEPT
            !.action_attempts = attempts,
            !.value_estimates =
                [i \in Arms(a.k) |->
                    IF i \in Indexed(a)
                    THEN QAdd(q[i], QMul(g(i), QSub(reward, q[i])))
                    ELSE q[i]],
            !.t = a.t + 1]

(* The softmax of the preferences is irrational; it is drawn from the      *)
(* probability vectors over a grid that are positive, sum to 1 and are     *)
(* ordered as the preferences are.                                         *)
PiDen(k) == k * (k + 1)
(* The vectors of k positive numerators that sum to PiDen(k): the gaps     *)
(* between k + 1 increasing cut points from 0 to PiDen(k).                 *)
PiGrid ==
    [k \in 1 .. MaxK |->
        {[i \in Arms(k) |-> c[i + 1] - c[i]] :
            c \in {b \in [0 .. k -> 0 .. PiDen(k)] :
                      /\ b[0] = 0
                      /\ b[k] = PiDen(k)
                      /\ \A i \in Arms(k) : b[i] < b[i + 1]}}]
Softmax(v, k) ==
    {[i \in Arms(k) |-> <<f[i], PiDen(k)>>] :
        f \in {h \in PiGrid[k] :
                  \A i, j \in Arms(k) :
                        /\ QLess(v[i], v[j]) <=> h[i] < h[j]
                        /\ (v[i] = v[j]) <=> (h[i] = h[j])}}

(* A GradientAgent.observe that does not write ht back to the chosen arm.  *)
GradientAgentObserveNoWriteBack(a, reward, pi) ==
    LET attempts == Increment(a)
        average_reward ==
            IF a.baseline
            THEN QAdd(a.average_reward,
                      QMul(QInv(Q(SumOver(attempts, Arms(a.k)))),
                           QSub(reward, a.average_reward)))
            ELSE a.average_reward
        d == QMul(a.alpha, QSub(reward, average_reward))
        v == a.value_estimates
    IN  [a EXCEPT
            !.action_attempts = attempts,
            !.average_reward = average_reward,
            !.value_estimates =
                [i \in Arms(a.k) |->
                    QSub(v[i], QMul(d, Norm(pi[i][1], pi[i][2])))],
            !.t = a.t + 1]

(* GradientAgent.observe, past the index check, with pi the softmax. *)
GradientAgentObserve(a, reward, pi) ==
    LET attempts == Increment(a)
        average_reward ==
            IF a.baseline
            THEN QAdd(a.average_reward,
                      QMul(QInv(Q(SumOver(attempts, Arms(a.k)))),
                           QSub(reward, a.average_reward)))
            ELSE a.average_reward
        d == QMul(a.alpha, QSub(reward, average_reward))
        v == a.value_estimates
        up(i) == QMul(d, QSub(Q(1), Norm(pi[i][1], pi[i][2])))
        down(i) == QMul(d, Norm(pi[i][1], pi[i][2]))
    IN  [a EXCEPT
            !.action_attempts = attempts,
            !.average_reward = average_reward,
            !.value_estimates =
                [i \in Arms(a.k) |->
                    IF a.last_action = None
                    THEN \* ht is a view of the array: both updates land on it
                         QSub(QAdd(v[i], up(i)), down(i))
                    ELSE IF i = a.last_action THEN QAdd(v[i], up(i))
                    ELSE QSub(v[i], down(i))],
            !.t = a.t + 1]

(* One draw per arm from the Beta posterior, on a grid inside (0, 1). *)
BetaSamples == {<<1, 4>>, <<3, 4>>}

(* A BetaAgent.observe that counts one trial per observation, whatever n.  *)
BetaAgentObserveOneTrial(a, reward, sample) ==
    LET attempts == Increment(a)
        alpha == [i \in Arms(a.k) |->
                    IF i \in Indexed(a) THEN a.alpha[i] + reward[1] ELSE a.alpha[i]]
        beta == [i \in Arms(a.k) |->
                    IF i \in Indexed(a) THEN a.beta[i] + (1 - reward[1]) ELSE a.beta[i]]
    IN  [a EXCEPT
            !.action_attempts = attempts,
            !.alpha = alpha,
            !.beta = beta,
            !.value_estimates =
                IF a.ts THEN sample
                ELSE [i \in Arms(a.k) |-> Norm(alpha[i], alpha[i] + beta[i])],
            !.ndim = IF a.ts THEN 2 ELSE 1,
            !.t = a.t + 1]

(* BetaAgent.observe, past the index check, with sample the result of      *)
(* self._prior.random(), an array of shape (1, k).                         *)
BetaAgentObserve(a, reward, sample) ==
    LET attempts == Increment(a)
        alpha == [i \in Arms(a.k) |->
                    IF i \in Indexed(a) THEN a.alpha[i] + reward[1] ELSE a.alpha[i]]
        beta == [i \in Arms(a.k) |->
                    IF i \in Indexed(a) THEN a.beta[i] + (a.n - reward[1]) ELSE a.beta[i]]
    IN  [a EXCEPT
            !.action_attempts = attempts,
            !.alpha = alpha,
            !.beta = beta,
            !.value_estimates =
                IF a.ts THEN sample
                ELSE [i \in Arms(a.k) |-> Norm(alpha[i], alpha[i] + beta[i])],
            !.ndim = IF a.ts THEN 2 ELSE 1,
            !.t = a.t + 1]

(* The rewards the bandit bound to the agent hands out: 0 or 1, and on a    *)
(* BetaAgent the successes among the n trials of a Binomial pull.          *)
Rewards(a) ==
    IF a.kind = "BetaAgent" THEN {Q(r) : r \in 0 .. a.n} ELSE {Q(0), Q(1)}

(* The agents observe() can leave, one per draw of the random source. *)
ObserveOf(a, reward) ==
    CASE a.kind \in {"Agent", "FrequentistAgent"} -> {AgentObserve(a, reward)}
      [] a.kind = "GradientAgent" ->
            {GradientAgentObserve(a, reward, pi) : pi \in Softmax(a.value_estimates, a.k)}
      [] a.kind = "BetaAgent" ->
            IF a.ts
            THEN {BetaAgentObserve(a, reward, s) : s \in [Arms(a.k) -> BetaSamples]}
            ELSE {BetaAgentObserve(a, reward, a.value_estimates)}

(* The history of observations: no reward on any arm, and one more reward *)
(* on the arms observe() addresses.                                       *)
NothingSeen(a) == IF a = NoAgent THEN <<>> ELSE [i \in Arms(a.k) |-> EmptyBag]
See(a, bags, reward) ==
    [i \in Arms(a.k) |->
        IF i \in Indexed(a) THEN bags[i] (+) SetToBag({reward}) ELSE bags[i]]

(* FrequentistAgent.rand_choice. *)
RandChoice(a) ==
    LET n == a.n + 1
    IN  [a EXCEPT
            !.n = n,
            !.last_choice =
                IF n > 0
                THEN IF a.last_choice # a.num_arm THEN a.last_choice + 1 ELSE 0
                ELSE a.last_choice]

(* FrequentistAgent.optimize, on a non-empty array. *)
Optimize(a) == [a EXCEPT !.optimal_choice = ArgMax(a.value_estimates, a.k)]

----------------------------------------------------------------------------
(* The configurations the driver constructs. *)

ArmCounts == 1 .. MaxK
Priors == {Q(0), Q(1)}
Gammas == {NoneQ, <<1, 2>>}
Trials == {1, 2}
Horizons == 0 .. MaxHorizon

(* Configurations inside the documented ranges. *)
Policies ==
    {GreedyPolicy, EpsilonGreedyPolicy(<<1, 2>>), RandomPolicy}
        \cup {UCBPolicy(2)}
        \cup {SoftmaxPolicy}
        \cup {FrequentistPolicy(n) : n \in Horizons}

Agents ==
    {Agent(k, p, g) : k \in ArmCounts, p \in Priors, g \in Gammas}
        \cup {GradientAgent(k, Q(0), <<1, 2>>, b) : k \in ArmCounts, b \in BOOLEAN}
        \cup {BetaAgent(k, n, ts) : k \in ArmCounts, n \in Trials, ts \in BOOLEAN}

FrequentistAgents == {FrequentistAgent(k) : k \in ArmCounts}

(* Configurations outside them: epsilon outside [0, 1], c <= 0, k <= 0. *)
OddPolicies ==
    {EpsilonGreedyPolicy(e) : e \in {Q(-1), Q(2)}}
        \cup {UCBPolicy(c) : c \in {-1, 0}}

OddAgents ==
    {IF ConstructorRaises(k) THEN NoAgent ELSE Agent(k, Q(0), NoneQ) : k \in {-1, 0}}

Configurations ==
    (Agents \X Policies)
        \cup (FrequentistAgents \X {GreedyPolicy, FrequentistPolicy(1)})
        \cup ({Agent(MaxK, Q(0), NoneQ)} \X OddPolicies)
        \cup (OddAgents \X {GreedyPolicy, RandomPolicy, UCBPolicy(2), SoftmaxPolicy,
                            FrequentistPolicy(0), FrequentistPolicy(1)})

----------------------------------------------------------------------------
(* The driver. *)

Init ==
    /\ \E c \in Configurations : agent = c[1] /\ policy = c[2]
    /\ op = "__init__"
    /\ raised = (agent = NoAgent)
    /\ ret = None
    /\ calls = 0
    /\ observed = 0
    /\ last_reward = NoneQ
    /\ seen = NothingSeen(agent)
    /\ chosen = FALSE
    /\ blind = FALSE

(* Agent.choose. *)
Choose ==
    /\ agent # NoAgent
    /\ policy.kind = "Frequentist" => calls < MaxCalls
    /\ \E o \in PolicyChoose(policy, agent) :
        /\ agent' = IF o.raise THEN o.agent
                    ELSE [o.agent EXCEPT !.last_action = o.action]
        /\ policy' = o.policy
        /\ raised' = o.raise
        /\ ret' = o.action
    /\ calls' = IF policy.kind = "Frequentist" THEN calls + 1 ELSE calls
    /\ op' = "choose"
    /\ last_reward' = NoneQ
    /\ chosen' = (chosen \/ ~raised')
    /\ UNCHANGED <<observed, seen, blind>>

(* Agent.observe and its overrides. *)
Observe ==
    /\ agent # NoAgent
    /\ agent.t < MaxT
    /\ \E reward \in Rewards(agent) :
        /\ last_reward' = reward
        /\ IF IndexRaises(agent)
           THEN /\ agent' = agent
                /\ raised' = TRUE
                /\ UNCHANGED <<observed, seen>>
           ELSE /\ agent' \in ObserveOf(agent, reward)
                /\ raised' = FALSE
                /\ observed' = observed + 1
                /\ seen' = See(agent, seen, reward)
    /\ op' = "observe"
    /\ ret' = None
    /\ blind' = (blind \/ ~chosen)
    /\ UNCHANGED <<policy, calls, chosen>>

(* Agent.reset and its overrides. *)
Reset ==
    /\ agent # NoAgent
    /\ agent' = ResetOf(agent)
    /\ op' = "reset"
    /\ raised' = FALSE
    /\ ret' = None
    /\ observed' = 0
    /\ last_reward' = NoneQ
    /\ seen' = NothingSeen(agent)
    /\ chosen' = FALSE
    /\ UNCHANGED <<policy, calls, blind>>

(* FrequentistAgent.rand_choice. *)
DoRandChoice ==
    /\ agent.kind = "FrequentistAgent"
    /\ agent.n < MaxRand
    /\ agent' = RandChoice(agent)
    /\ op' = "rand_choice"
    /\ raised' = FALSE
    /\ ret' = agent'.last_choice
    /\ last_reward' = NoneQ
    /\ UNCHANGED <<policy, calls, observed, seen, chosen, blind>>

(* FrequentistAgent.optimize. *)
DoOptimize ==
    /\ agent.kind = "FrequentistAgent"
    /\ agent' = Optimize(agent)
    /\ op' = "optimize"
    /\ raised' = FALSE
    /\ ret' = None
    /\ last_reward' = NoneQ
    /\ UNCHANGED <<policy, calls, observed, seen, chosen, blind>>

Next ==
    \/ Choose
    \/ Observe
    \/ Reset
    \/ DoRandChoice
    \/ DoOptimize

Spec == Init /\ [][Next]_vars

----------------------------------------------------------------------------
(* The properties. *)

(* The arms holding the largest value estimate. *)
MaxArms(v, k) == {i \in Arms(k) : \A j \in Arms(k) : QLeq(v[j], v[i])}

(* The agent a constructor call with the parameters of a would return. *)
NewLike(a) ==
    CASE a.kind = "Agent" -> Agent(a.k, a.prior, a.gamma)
      [] a.kind = "GradientAgent" -> GradientAgent(a.k, a.prior, a.alpha, a.baseline)
      [] a.kind = "BetaAgent" -> BetaAgent(a.k, a.n, a.ts)
      [] a.kind = "FrequentistAgent" -> FrequentistAgent(a.k)

(* C1: observe(reward) called while last_action is None raises, and leaves *)
(* value_estimates, action_attempts and t as they were.                    *)
C1_ObserveBeforeChooseFails ==
    [][(agent # NoAgent /\ agent.last_action = None /\ op' = "observe")
         => /\ raised'
            /\ agent'.value_estimates = agent.value_estimates
            /\ agent'.action_attempts = agent.action_attempts
            /\ agent'.t = agent.t]_vars

C3_FrequentistResetRestoresAll ==
    (agent.kind = "FrequentistAgent" /\ op = "reset")
        => agent = FrequentistAgent(agent.k)

(* C4: the i-th of the first N calls to FrequentistPolicy.choose           *)
(* (i = 0..N-1) returns i mod k.                                           *)
C4_RoundRobinForFirstN ==
    (/\ agent # NoAgent
     /\ agent.k >= 1
     /\ policy.kind = "Frequentist"
     /\ op = "choose"
     /\ calls <= policy.N)
        => (~raised /\ ret = (calls - 1) % agent.k)

(* C5: call N+1 to FrequentistPolicy.choose returns an arm of maximum      *)
(* value estimate, and every later call returns the arm the call before it *)
(* returned (the agent's last_action), whatever the estimates have become. *)
C5_LockAfterHorizon ==
    [][(/\ agent # NoAgent
        /\ agent.k >= 1
        /\ policy.kind = "Frequentist"
        /\ op' = "choose")
         => /\ (calls' = policy.N + 1)
                 => /\ ~raised'
                    /\ ret' \in MaxArms(agent.value_estimates, agent.k)
            /\ (calls' > policy.N + 1 /\ agent.last_action # None)
                 => (~raised' /\ ret' = agent.last_action)]_vars

(* C6: with epsilon = 0, the arms choose() can return are exactly the arms *)
(* whose estimate is the maximum: never another arm, and every tied arm.   *)
C6_GreedyReturnsAnyMaximalArm ==
    (agent # NoAgent /\ agent.k >= 1 /\ policy = GreedyPolicy)
        => /\ \A i \in Arms(agent.k) :
                (ENABLED (Choose /\ ~raised' /\ ret' = i))
                    <=> (i \in MaxArms(agent.value_estimates, agent.k))
           /\ ~ENABLED (Choose /\ raised')

(* C6's case: greedy returned the higher-indexed of two arms tied for the  *)
(* maximum, after observations.                                            *)
C6_Witness ==
    /\ agent # NoAgent
    /\ agent.k >= 2
    /\ policy = GreedyPolicy
    /\ op = "choose"
    /\ ~raised
    /\ ret = 1
    /\ agent.t >= 1
    /\ agent.action_attempts[0] = 1
    /\ agent.action_attempts[1] = 0
    /\ agent.value_estimates[0] = agent.value_estimates[1]
    /\ {0, 1} \subseteq MaxArms(agent.value_estimates, agent.k)

C8_InvalidConfigurationRejected ==
    /\ (policy.kind = "EpsilonGreedy")
          => (QLeq(Q(0), policy.epsilon) /\ QLeq(policy.epsilon, Q(1)))
    /\ (policy.kind = "UCB") => (policy.c > 0)
    /\ (agent # NoAgent) => (agent.k > 0)

(* C9: Agent.choose() changes no field of the agent but last_action, which *)
(* becomes the index it returns.                                           *)
C9_ChooseOnlySetsLastAction ==
    [][(agent # NoAgent /\ op' = "choose")
         => /\ agent' = [agent EXCEPT !.last_action = agent'.last_action]
            /\ agent'.value_estimates = agent.value_estimates
            /\ agent'.action_attempts = agent.action_attempts
            /\ agent'.t = agent.t
            /\ (~raised') => (agent'.last_action = ret')]_vars

(* C9's case: a choose() on an agent that has observed rewards changed the *)
(* last action.                                                            *)
C9_Witness ==
    /\ agent # NoAgent
    /\ op = "choose"
    /\ ~raised
    /\ agent.t >= 2
    /\ ret \in Arms(agent.k)
    /\ agent.last_action = ret
    /\ agent.action_attempts[ret] = 0
    /\ \E j \in Arms(agent.k) : agent.action_attempts[j] = agent.t

(* C10: every observe() after a choose() adds exactly 1 to t, t never      *)
(* decreases except through reset(), and t is the number of observations   *)
(* since construction or the last reset.                                   *)
C10_StepCounterCountsObservations ==
    [][(agent # NoAgent)
         => /\ (op' = "observe" /\ agent.k >= 1 /\ agent.last_action # None)
                 => (~raised' /\ agent'.t = agent.t + 1)
            /\ (op' # "reset") => (agent'.t >= agent.t)
            /\ agent'.t = observed']_vars

(* C11: on an agent with k >= 1 arms, whatever the policy, last_action is  *)
(* None or an arm index in 0..k-1 in every state choose(), observe() and   *)
(* reset() reach.                                                          *)
C11_LastActionInRange ==
    (agent # NoAgent /\ agent.k >= 1) =>
        (agent.last_action = None \/ agent.last_action \in Arms(agent.k))

(* The last of MaxCalls calls of FrequentistPolicy.choose has returned, on *)
(* an agent that has observed a reward.                                    *)
C11_Witness ==
    /\ op = "choose" /\ ~raised
    /\ policy.kind = "Frequentist" /\ policy.N >= 1 /\ calls = MaxCalls
    /\ agent.k >= 1
    /\ agent.t >= 1
    /\ agent.last_action = ret

(* C12: on a base Agent with gamma None, the first observe(r) on an arm    *)
(* since construction or reset() leaves that arm's estimate equal to r,    *)
(* whatever the prior; so when each arm has been observed once, with the   *)
(* same reward r, every estimate is r.                                     *)
C12_FirstObservationSetsEstimate ==
    /\ [][(/\ op' = "observe" /\ ~raised'
           /\ agent.kind = "Agent" /\ agent.gamma = NoneQ
           /\ agent.last_action # None
           /\ seen[agent.last_action] = EmptyBag)
          => agent'.value_estimates[agent.last_action] = last_reward']_vars
    /\ [](\A r \in {Q(0), Q(1)} :
            (/\ agent.kind = "Agent" /\ agent.gamma = NoneQ
             /\ \A i \in Arms(agent.k) : seen[i] = SetToBag({r}))
            => \A i \in Arms(agent.k) : agent.value_estimates[i] = r)

(* Each of two or more arms, chosen in turn, has been observed once with   *)
(* reward 0 on an agent whose prior is 1, and every estimate is 0.         *)
C12_Witness ==
    /\ op = "observe" /\ ~raised /\ ~blind
    /\ agent.kind = "Agent" /\ agent.gamma = NoneQ /\ agent.prior = Q(1)
    /\ agent.k >= 2
    /\ \A i \in Arms(agent.k) :
          seen[i] = SetToBag({Q(0)}) /\ agent.value_estimates[i] = Q(0)

(* The sum of the rewards in a bag, and the sum of n - reward over it. *)
SumOfRewards(B) ==
    QSumOver([r \in BagToSet(B) |-> QMul(Q(CopiesIn(r, B)), r)], BagToSet(B))
SumOfFailures(B, n) ==
    QSumOver([r \in BagToSet(B) |-> QMul(Q(CopiesIn(r, B)), QSub(Q(n), r))],
             BagToSet(B))

(* C13: on a BetaAgent, after any calls since construction or reset(),     *)
(* alpha[a] is 1 plus the sum of the rewards observed on arm a and beta[a] *)
(* is 1 plus the sum of n - reward over them; with every reward in 0..n    *)
(* both are positive.                                                      *)
C13_PosteriorCountsRewards ==
    agent.kind = "BetaAgent" =>
        \A a \in Arms(agent.k) :
            /\ Q(agent.alpha[a]) = QAdd(Q(1), SumOfRewards(seen[a]))
            /\ Q(agent.beta[a]) = QAdd(Q(1), SumOfFailures(seen[a], agent.n))
            /\ agent.alpha[a] > 0
            /\ agent.beta[a] > 0

(* Rewards 1, 0 and 1 have been observed on one chosen arm with n = 1:     *)
(* alpha is 3 and beta is 2 there.                                         *)
C13_Witness ==
    /\ agent.kind = "BetaAgent" /\ agent.n = 1 /\ ~blind
    /\ op = "observe" /\ ~raised
    /\ \E a \in Arms(agent.k) :
          /\ seen[a] = (Q(0) :> 1) @@ (Q(1) :> 2)
          /\ agent.alpha[a] = 3
          /\ agent.beta[a] = 2

(* C14: on a base Agent with gamma None, after any calls since             *)
(* construction or reset(), the estimate of every arm with at least one    *)
(* attempt is the mean of the rewards observed on it, whatever the prior:  *)
(* value_estimates[a] * action_attempts[a] is their sum.                   *)
C14_EstimateIsSampleMean ==
    (agent.kind = "Agent" /\ agent.gamma = NoneQ) =>
        \A a \in Arms(agent.k) :
            agent.action_attempts[a] >= 1 =>
                /\ agent.action_attempts[a] = BagCardinality(seen[a])
                /\ QMul(agent.value_estimates[a], Q(agent.action_attempts[a]))
                       = SumOfRewards(seen[a])

(* An agent with prior 1 has observed rewards 0 and 1 on one chosen arm    *)
(* and holds estimate 1/2 for it.                                          *)
C14_Witness ==
    /\ agent.kind = "Agent" /\ agent.gamma = NoneQ /\ agent.prior = Q(1)
    /\ op = "observe" /\ ~raised /\ ~blind
    /\ \E a \in Arms(agent.k) :
          /\ seen[a] = (Q(0) :> 1) @@ (Q(1) :> 1)
          /\ agent.action_attempts[a] = 2
          /\ agent.value_estimates[a] = <<1, 2>>

(* C15: in every GradientAgent.observe(reward) step on a chosen arm, with  *)
(* the baseline on or off, there is a probability vector pi, a softmax of  *)
(* the preferences before the step that sums to 1, such that the chosen    *)
(* arm's preference changes by +alpha*(reward - baseline)*(1 - pi[chosen]) *)
(* and every other arm's by -alpha*(reward - baseline)*pi[arm]; the        *)
(* changes sum to zero, so sum(value_estimates) is left as it was.         *)
C15_PreferenceChangesSumToZero ==
    [][(/\ op' = "observe" /\ ~raised'
        /\ agent.kind = "GradientAgent"
        /\ agent.last_action # None)
       => LET k == agent.k
              v == agent.value_estimates
              w == agent'.value_estimates
              d == QMul(agent.alpha, QSub(last_reward', agent'.average_reward))
          IN  /\ \E pi \in Softmax(v, k) :
                    LET p(i) == Norm(pi[i][1], pi[i][2])
                    IN  /\ QSumOver([i \in Arms(k) |-> p(i)], Arms(k)) = Q(1)
                        /\ \A i \in Arms(k) :
                              QSub(w[i], v[i]) =
                                  IF i = agent.last_action
                                  THEN QMul(d, QSub(Q(1), p(i)))
                                  ELSE QNeg(QMul(d, p(i)))
              /\ QSumOver([i \in Arms(k) |-> QSub(w[i], v[i])], Arms(k)) = Q(0)
              /\ QSumOver(w, Arms(k)) = QSumOver(v, Arms(k))]_vars

(* A GradientAgent with its baseline on and two or more arms has observed  *)
(* rewards on chosen arms: some preference has left 0, and the preferences *)
(* still sum to 0.                                                         *)
C15_Witness ==
    /\ agent.kind = "GradientAgent" /\ agent.baseline /\ agent.k >= 2
    /\ op = "observe" /\ ~raised /\ ~blind
    /\ \E i \in Arms(agent.k) : agent.value_estimates[i] # Q(0)
    /\ QSumOver(agent.value_estimates, Arms(agent.k)) = Q(0)

(* C16: the calls of FrequentistAgent.rand_choice() since construction or  *)
(* reset() return 0, 1, ..., k-1, 0, 1, ... in turn: the call numbered n   *)
(* (from 0) returns n mod k, a valid arm index.                            *)
C16_RandChoiceCyclesThroughArms ==
    (op = "rand_choice" /\ agent.kind = "FrequentistAgent") =>
        /\ ret = agent.n % agent.k
        /\ ret \in Arms(agent.k)

(* C17: for every agent variant, as long as no observe() has been called   *)
(* without a choose() before it since construction or the reset() before   *)
(* it, every action_attempts[i] is a non-negative integer and the sum of   *)
(* action_attempts over the arms is t.                                     *)
C17_AttemptsSumToStepCounter ==
    (agent # NoAgent /\ ~blind) =>
        /\ \A i \in Arms(agent.k) : agent.action_attempts[i] \in Nat
        /\ SumOver(agent.action_attempts, Arms(agent.k)) = agent.t

(* A FrequentistAgent with two or more arms has observed each arm once,    *)
(* with a reset() between the observations, each after a choose().         *)
C17_Witness ==
    /\ agent.kind = "FrequentistAgent" /\ agent.k >= 2
    /\ op = "observe" /\ ~raised /\ ~blind
    /\ observed = 1
    /\ agent.t = 2
    /\ \A i \in Arms(agent.k) : agent.action_attempts[i] >= 1

(* C18: an observe(reward) of a base Agent made after a choose() adds 1 to *)
(* action_attempts[last_action], leaves value_estimates[j] and             *)
(* action_attempts[j] as they were for every other arm j, and leaves       *)
(* last_action as it was, so that a second observe() goes to the same arm. *)
C18_ObserveChangesOnlyChosenArm ==
    [][(/\ op' = "observe" /\ ~raised'
        /\ agent.kind = "Agent"
        /\ chosen)
       => LET la == agent.last_action
          IN  /\ la \in Arms(agent.k)
              /\ agent'.action_attempts[la] = agent.action_attempts[la] + 1
              /\ \A j \in Arms(agent.k) \ {la} :
                    /\ agent'.value_estimates[j] = agent.value_estimates[j]
                    /\ agent'.action_attempts[j] = agent.action_attempts[j]
              /\ agent'.last_action = la]_vars

(* Two rewards have been observed after a choose() on one arm of an agent  *)
(* with prior 1 and two or more arms: that arm holds both attempts, the    *)
(* other arms hold none and keep the prior.                                *)
C18_Witness ==
    /\ agent.kind = "Agent" /\ agent.prior = Q(1) /\ agent.k >= 2
    /\ op = "observe" /\ ~raised /\ ~blind
    /\ agent.t = 2
    /\ agent.last_action \in Arms(agent.k)
    /\ agent.action_attempts[agent.last_action] = 2
    /\ agent.value_estimates[agent.last_action] # Q(1)
    /\ \A j \in Arms(agent.k) \ {agent.last_action} :
          agent.action_attempts[j] = 0 /\ agent.value_estimates[j] = Q(1)

(* Value estimates UCBPolicy.choose is tried on. *)
Estimates(k) == [Arms(k) -> {Q(0), <<1, 2>>, Q(1)}]

(* The arms UCBPolicy.choose can return on agent a with estimates v. *)
UCBReturns(p, a, v) ==
    {o.action : o \in {x \in UCBChoose(p, [a EXCEPT !.value_estimates = v]) :
                          ~x.raise}}

(* C19: UCBPolicy.choose with c > 0, at t >= 1 with some arm never         *)
(* attempted, returns only an arm with no attempt, whatever the finite     *)
(* value estimates; at t = 0 with no arm attempted it returns an arm of    *)
(* maximum value estimate.  Both the arm the last choose() returned and    *)
(* the arms choose() can return on any estimates are checked.              *)
C19_UCBTriesUntriedArmsFirst ==
    (agent # NoAgent /\ agent.k >= 1 /\ policy.kind = "UCB" /\ policy.c > 0) =>
        LET k == agent.k
            n == agent.action_attempts
            untried == {i \in Arms(k) : n[i] = 0}
        IN  /\ (agent.t >= 1 /\ untried # {}) =>
                  /\ (op = "choose" /\ ~raised) => ret \in untried
                  /\ \A v \in Estimates(k) : UCBReturns(policy, agent, v) \subseteq untried
            /\ (agent.t = 0 /\ untried = Arms(k)) =>
                  /\ op = "choose" =>
                        ~raised /\ ret \in MaxArms(agent.value_estimates, k)
                  /\ \A v \in Estimates(k) :
                        /\ agent.ndim = 1 => UCBReturns(policy, agent, v) # {}
                        /\ UCBReturns(policy, agent, v) \subseteq MaxArms(v, k)

(* UCB has returned the arm with no attempt at t >= 1 while the attempted  *)
(* arm holds the larger value estimate.                                    *)
C19_Witness ==
    /\ agent # NoAgent /\ policy.kind = "UCB" /\ policy.c > 0
    /\ op = "choose" /\ ~raised /\ ~blind
    /\ agent.t >= 1
    /\ ret \in Arms(agent.k)
    /\ agent.action_attempts[ret] = 0
    /\ \E j \in Arms(agent.k) :
          /\ agent.action_attempts[j] >= 1
          /\ QLess(agent.value_estimates[ret], agent.value_estimates[j])

====
